---- MODULE Spec2Model ----
(***************************************************************************)
(* ChessDbFile (src/ChessDbFile.js): a JSON-file backed bank of students   *)
(* and transactions, with a debounced write of the whole database.         *)
(*                                                                         *)
(* Scheduling model.  Node runs one job at a time.  An `await` on an       *)
(* already settled promise resumes in a later microtask; every microtask   *)
(* runs before the next timer or I/O callback (macrotask).  A call of the  *)
(* API is a record in `calls` whose pc names the await it is suspended at. *)
(* Calls suspended at an await of an in-memory async function              *)
(* (getStudentByUUID, getStudentBalance, Promise.all) are ready            *)
(* microtasks: any of them may run next, and a caller may start a new call *)
(* between two of them.  Calls suspended on bcrypt, the debounce timer and *)
(* fs.writeFile resume in a macrotask, so only when no microtask is ready. *)
(*                                                                         *)
(* Left out: the `time` and `memo` fields of a transaction, which no       *)
(* branch of the code reads.                                               *)
(***************************************************************************)
EXTENDS Integers, Sequences, FiniteSets, TLC

\* ---------------------------------------------------------------- bounds
\* Number of API calls started in one behaviour.
MaxCalls == 2

\* ------------------------------------------------------ program constants
\* getStudentBalance: `if (uuid === 0) { return 10000; }`
ReservoirBalance == 10000
\* createStudent: `if (password.length < 10)`
MinPasswordLength == 10
\* The uuid of "the world": `from === 0`, `to === 0`, `uuid === 0`.
Reservoir == 0

\* ------------------------------------------------------------ input sets
\* Names are sequences of characters, so that trim() is computed.
NameA == << "A" >>
NameLowerA == << "a" >>
NameB == << "B" >>
NameInputs == { NameA, NameLowerA, << " ", "A" >>, << >> }
PasswordInputs == { "GuiltySpark343", "short" }
\* Amounts are rationals n/d (d > 0), so that a non-integer is an input.
Amt(n, d) == [n |-> n, d |-> d]
AmountInputs == { Amt(10, 1), Amt(0, 1), Amt(-10, 1), Amt(3, 2) }
\* Uuids a caller may pass: the reservoir, uuids of students, and 3, which
\* belongs to no student until a third one is created.
UuidInputs == 0 .. 3

\* ------------------------------------------------------------------ data
Student(uuid, name, pash, balance) ==
    [uuid |-> uuid, name |-> name, pash |-> pash, balance |-> balance]

Transaction(from, to, amount) == [from |-> from, to |-> to, amount |-> amount]

Db(students, transactions) == [students |-> students, transactions |-> transactions]

\* bcrypt.hash(password, 10): an opaque digest, one per password.
Hash(password) == << "bcrypt", password >>

\* The database of an empty or missing bank.json (constructor, lines 34-38).
EmptyDb == Db(<< >>, << >>)

\* The database mock_bank_data_init.js leaves in bank.json: two students,
\* a deposit of 20 to the first and a transfer of 5 to the second.
SeededDb ==
    Db(<< Student(1, NameA, Hash("GuiltySpark343"), 15),
          Student(2, NameB, Hash("GetsugaTensho"), 5) >>,
       << Transaction(0, 1, 20), Transaction(1, 2, 5) >>)

\* bank.json files the constructor is run on.
Snapshots == { EmptyDb, SeededDb }

\* ------------------------------------------------------- pure functions
\* x | 0 on an integer x: ToInt32 wraps x into -2^31 .. 2^31 - 1.  Every
\* integer of this model lies in that range, where the wrap changes nothing.
ToInt32(n) == n

\* Truncation toward zero of n/d, the integer part JavaScript's | 0 keeps.
Trunc(a) ==
    IF a.n >= 0 THEN a.n \div a.d ELSE -((-a.n) \div a.d)

\* A check of line 143 that lets every number through.
IsInt32AnyNumber(a) == TRUE

\* `amount !== (amount | 0)` is false: amount is an integer in int32 range.
IsInt32(a) == a.n % a.d = 0 /\ ToInt32(Trunc(a)) = a.n \div a.d

\* name.trim()
RECURSIVE TrimLeft(_)
TrimLeft(s) ==
    IF s # << >> /\ Head(s) = " " THEN TrimLeft(Tail(s)) ELSE s

RECURSIVE TrimRight(_)
TrimRight(s) ==
    IF s # << >> /\ s[Len(s)] = " " THEN TrimRight(SubSeq(s, 1, Len(s) - 1)) ELSE s

Trim(s) == TrimRight(TrimLeft(s))

\* A filter written `x => x.uuid = uuid`: the assignment is truthy for every
\* student unless uuid is 0.
MatchUuidAssigned(students, uuid) ==
    IF uuid = 0 THEN { } ELSE DOMAIN students

\* this.db.students.filter(x => x.uuid === uuid), as indexes into students.
MatchUuid(students, uuid) ==
    { i \in DOMAIN students : students[i].uuid = uuid }

\* toLowerCase() on the characters of the model.
LowerChar(ch) == IF ch = "A" THEN "a" ELSE IF ch = "B" THEN "b" ELSE ch

LowerCase(s) == [i \in DOMAIN s |-> LowerChar(s[i])]

\* A filter that compares names without regard to case.
MatchNameIgnoringCase(students, name) ==
    { i \in DOMAIN students : LowerCase(students[i].name) = LowerCase(name) }

\* this.db.students.filter(x => x.name === name), as indexes into students.
MatchName(students, name) ==
    { i \in DOMAIN students : students[i].name = name }

\* getStudentCheck with _ref = true: the index of the live student, NoStudent
\* for null, Fatal where the code calls process.exit.
NoStudent == 0
Fatal == -1
getStudentCheck(matches) ==
    IF Cardinality(matches) > 1 THEN Fatal
    ELSE IF Cardinality(matches) = 1 THEN CHOOSE i \in matches : TRUE
    ELSE NoStudent

\* getStudentByUUID(uuid, true)
getStudentByUUID(students, uuid) == getStudentCheck(MatchUuid(students, uuid))

\* A reduce that forgets the `- (tx.from === uuid)` term.
RECURSIVE ReduceBalanceCreditsOnly(_, _, _)
ReduceBalanceCreditsOnly(transactions, uuid, k) ==
    IF k = 0 THEN 0
    ELSE LET tx == transactions[k]
             sign == IF tx.to = uuid THEN 1 ELSE 0
         IN  ReduceBalanceCreditsOnly(transactions, uuid, k - 1) + tx.amount * sign

\* The reduce of getStudentBalance over the first k transactions:
\* bal + (tx.amount | 0) * ((tx.to === uuid) - (tx.from === uuid)).
RECURSIVE ReduceBalance(_, _, _)
ReduceBalance(transactions, uuid, k) ==
    IF k = 0 THEN 0
    ELSE LET tx == transactions[k]
             sign == (IF tx.to = uuid THEN 1 ELSE 0) - (IF tx.from = uuid THEN 1 ELSE 0)
         IN  ReduceBalance(transactions, uuid, k - 1) + ToInt32(tx.amount) * sign

\* A recalc that misses the newest transaction.
recalcButLast(d, idx, uuid) ==
    [d EXCEPT !.students[idx].balance =
                  ReduceBalance(d.transactions, uuid,
                                IF d.transactions = << >> THEN 0
                                ELSE Len(d.transactions) - 1)]

\* student.balance = this.db.transactions.reduce(...), on the live student
\* at index idx (getStudentBalance with recalc = true, lines 131-134).
recalc(d, idx, uuid) ==
    [d EXCEPT !.students[idx].balance =
                  ReduceBalance(d.transactions, uuid, Len(d.transactions))]

\* An assignment of a one-element array where the code pushes.
pushTransactionOverwriting(d, from, to, amount) ==
    [d EXCEPT !.transactions = << Transaction(from, to, amount) >>]

\* this.db.transactions.push({ time, from, to, amount, memo })
pushTransaction(d, from, to, amount) ==
    [d EXCEPT !.transactions = Append(@, Transaction(from, to, amount))]

\* this.db.students.push({ uuid, name, pash, balance: 0 })
pushStudent(d, uuid, name, pash) ==
    [d EXCEPT !.students = Append(@, Student(uuid, name, pash, 0))]

\* --------------------------------------------------------- write cycles
\* this.writeP is null (NoWrite) or the promise of a cycle, named by the
\* index of the cycle in `cycles`.
NoWrite == 0

\* One run of scheduleWrite past line 164.  st: "wait" (the setTimeout of
\* line 170), "write" (the fs.writeFile of line 173), "failed" (the async
\* function has thrown); a cycle whose write succeeded is dropped from
\* `cycles`.  handle is the state of the promise stored in this.writeP,
\* callP that of the promise the starting call returned.  joins, first, seen
\* and writes record the history of the cycle: the scheduleWrite calls that
\* returned its promise, the database at the first and at the latest of
\* those made during the wait, and the fs.writeFile calls made since it began.
Cycle(d) ==
    [st |-> "wait", snap |-> EmptyDb, handle |-> "pending", callP |-> "pending",
     joins |-> 1, first |-> d, seen |-> d, writes |-> 0]

\* Cycles whose timer or file write is outstanding.
InFlight(cy) == { i \in DOMAIN cy : cy[i].st \in { "wait", "write" } }

\* The name of the next promise: one more than every name in use.
NewPromise(cy) ==
    IF DOMAIN cy = { } THEN 1
    ELSE 1 + CHOOSE i \in DOMAIN cy : \A j \in DOMAIN cy : j <= i

\* A scheduleWrite without the `if (this.writeP)` of line 164.
scheduleWriteUnguarded(wp, cy, d) ==
    [writeP |-> NewPromise(cy),
     cycles |-> [i \in DOMAIN cy \cup { NewPromise(cy) } |->
                    IF i \in DOMAIN cy THEN cy[i] ELSE Cycle(d)]]

\* The synchronous part of scheduleWrite (lines 162-170), called with the
\* database d as it is at the call: the new this.writeP and cycles.
scheduleWrite(wp, cy, d) ==
    IF wp # NoWrite
    THEN [writeP |-> wp,
          cycles |-> [cy EXCEPT ![wp].joins = @ + 1,
                                ![wp].seen = IF cy[wp].st = "wait" THEN d ELSE @]]
    ELSE [writeP |-> NewPromise(cy),
          cycles |-> [i \in DOMAIN cy \cup { NewPromise(cy) } |->
                         IF i \in DOMAIN cy THEN cy[i] ELSE Cycle(d)]]

\* A serialization taken when the cycle began, before the wait.
FlushSnapshotAtStart(c, d) == c.first

\* JSON.stringify(this.db, null, 2) of line 173, evaluated when the timer of
\* cycle c has fired.
FlushSnapshot(c, d) == d

\* ----------------------------------------------------------------- state
VARIABLES
    db,        \* this.db: [students, transactions]
    writeP,    \* this.writeP
    cycles,    \* the write cycles not yet completed: promise -> cycle
    disk,      \* the database last written to bank.json
    calls,     \* the API calls in flight: call id -> frame
    started,   \* number of API calls started
    nextUuid,  \* the uuid generator
    last,      \* the call the latest step completed, if it completed one
    exited     \* process.exit was called

vars == << db, writeP, cycles, disk, calls, started, nextUuid, last, exited >>

\* uuidv4(): a generator that never repeats a value.
uuidv4(n) == n

NoLast == [op |-> "none"]

\* The ERRORS table (lines 182-186), each entry the value its expression
\* evaluates to.
ERRORS == [READ |-> 1 < 0, PARSE |-> 1 < 1, DUPLICATE |-> 1 < 2]

\* What last holds once process.exit(ERRORS[cause]) was called.
ExitResult(cause) == [op |-> "exit", cause |-> cause, status |-> ERRORS[cause]]

Init ==
    /\ db \in Snapshots
    /\ disk = db
    /\ writeP = NoWrite
    /\ cycles = << >>
    /\ calls = << >>
    /\ started = 0
    /\ nextUuid = Len(db.students) + 1
    /\ last = NoLast
    /\ exited = FALSE

\* No resumed continuation is waiting in the microtask queue: every call in
\* flight is suspended on bcrypt (hash or compare).
NoMicrotask == \A p \in DOMAIN calls : calls[p].pc \in { "hash", "compare" }

CanStart == ~exited /\ started < MaxCalls

\* The frames of the calls in flight once call p has returned or thrown.
Without(p) == [q \in DOMAIN calls \ { p } |-> calls[q]]

\* A frame of a call that another call overlaps: it did not run alone, and
\* the database it started from is no longer recorded.
Overlapped(f) == [f EXCEPT !.alone = FALSE, !.pre = EmptyDb]

\* The database recorded at the start of a call.
PreDb(alone) == IF alone THEN db ELSE EmptyDb

\* The frames once a call has started and thrown at once.
WithThrown == [q \in DOMAIN calls |-> Overlapped(calls[q])]

\* The frames once a call with frame f has started.
WithNew(f) ==
    [q \in DOMAIN calls \cup { started + 1 } |->
        IF q = started + 1 THEN f ELSE Overlapped(calls[q])]

\* this.scheduleWrite() on the database d.
Sched(d) ==
    LET r == scheduleWrite(writeP, cycles, d)
    IN  /\ writeP' = r.writeP
        /\ cycles' = r.cycles

\* ------------------------------------------------------- createStudent
\* What last holds once a createStudent call has returned or thrown.
StudentResult(name, password, outcome, uuid, pre, alone) ==
    [op |-> "createStudent", name |-> name, password |-> password,
     outcome |-> outcome, ret |-> uuid, pre |-> pre, alone |-> alone]

\* createStudent up to the await of bcrypt.hash (lines 44-66).  The three
\* validations and the name check throw; otherwise the uuid is drawn and the
\* call suspends with the student not yet pushed.
StartCreateStudent(name, password) ==
    /\ CanStart
    /\ started' = started + 1
    /\ LET alone == DOMAIN calls = { }
           thrown == IF Trim(name) # name \/ Len(name) = 0
                        \/ Len(password) < MinPasswordLength
                     THEN "validation"
                     ELSE IF MatchName(db.students, name) # { } THEN "conflict"
                     ELSE "none"
       IN  IF thrown # "none"
           THEN /\ last' = StudentResult(name, password, thrown, 0, PreDb(alone), alone)
                /\ calls' = WithThrown
                /\ UNCHANGED nextUuid
           ELSE /\ calls' = WithNew([op |-> "createStudent", pc |-> "hash",
                                     name |-> name, password |-> password,
                                     uuid |-> uuidv4(nextUuid),
                                     pre |-> PreDb(alone), alone |-> alone])
                /\ nextUuid' = nextUuid + 1
                /\ last' = NoLast
    /\ UNCHANGED << db, writeP, cycles, disk, exited >>

\* bcrypt.hash has resolved: the student is pushed, the write is scheduled
\* and the uuid returned (lines 63-71).
HashDone(p) ==
    /\ ~exited
    /\ p \in DOMAIN calls
    /\ calls[p].pc = "hash"
    /\ NoMicrotask
    /\ LET c == calls[p]
       IN  /\ db' = pushStudent(db, c.uuid, c.name, Hash(c.password))
           /\ Sched(db')
           /\ last' = StudentResult(c.name, c.password, "ok", c.uuid, c.pre, c.alone)
    /\ calls' = Without(p)
    /\ UNCHANGED << disk, started, nextUuid, exited >>

\* --------------------------------------------------- createTransaction
\* What last holds once a createTransaction call has returned or thrown:
\* outcome "ok" with ret the pair of balances, "declined" for null,
\* "validation" and "notfound" for the errors thrown.  given is the amount
\* as the caller passed it, amount the integer the code went on with.
TxResult(c, outcome) ==
    [op |-> "createTransaction", from |-> c.from, to |-> c.to, amount |-> c.amount,
     given |-> c.given,
     outcome |-> outcome, ret |-> c.ret, pre |-> c.pre, alone |-> c.alone]

\* The call p ends with the outcome.
Return(p, outcome) ==
    /\ last' = TxResult(calls[p], outcome)
    /\ calls' = Without(p)

\* createTransaction up to its first await (lines 141-150): the three
\* validations, then either the lookup of getStudentBalance(from, true) or,
\* for a deposit, the lookup of getStudentByUUID(to, true).
StartCreateTransaction(from, to, amount) ==
    /\ CanStart
    /\ LET alone == DOMAIN calls = { }
           frame == [op |-> "createTransaction", pc |-> "balance",
                     from |-> from, to |-> to, amount |-> amount, given |-> amount,
                     student |-> NoStudent, studentTo |-> NoStudent,
                     bal |-> 0, ret |-> << 0, 0 >>, pre |-> PreDb(alone), alone |-> alone]
           found == getStudentByUUID(db.students, IF from = Reservoir THEN to ELSE from)
       IN  IF from = to \/ ~IsInt32(amount) \/ amount.n <= 0
           THEN /\ last' = TxResult(frame, "validation")
                /\ calls' = WithThrown
                /\ started' = started + 1
                /\ UNCHANGED exited
           ELSE IF found = Fatal
           THEN /\ exited' = TRUE
                /\ last' = ExitResult("DUPLICATE")
                /\ UNCHANGED << calls, started >>
           ELSE /\ calls' = WithNew([frame EXCEPT
                                !.amount = Trunc(amount),
                                !.pc = IF from = Reservoir THEN "push" ELSE "balance",
                                !.student = found])
                /\ started' = started + 1
                /\ last' = NoLast
                /\ UNCHANGED exited
    /\ UNCHANGED << db, writeP, cycles, disk, nextUuid >>

\* getStudentBalance(from, true) resumes after its lookup (lines 130-137):
\* a missing student throws, otherwise the balance is recomputed into the
\* student, the write is scheduled and the balance returned.
TxBalance(p) ==
    /\ ~exited
    /\ p \in DOMAIN calls
    /\ calls[p].pc = "balance"
    /\ LET c == calls[p]
       IN  IF c.student = NoStudent
           THEN /\ Return(p, "notfound")
                /\ UNCHANGED << db, writeP, cycles >>
           ELSE /\ db' = recalc(db, c.student, c.from)
                /\ Sched(db')
                /\ calls' = [calls EXCEPT ![p].pc = "check",
                                          ![p].bal = db'.students[c.student].balance]
                /\ last' = NoLast
    /\ UNCHANGED << disk, started, nextUuid, exited >>

\* createTransaction resumes with the balance (lines 147-150): too small a
\* balance returns null, otherwise `to` is looked up, 0 included.
TxCheck(p) ==
    /\ ~exited
    /\ p \in DOMAIN calls
    /\ calls[p].pc = "check"
    /\ LET c == calls[p]
           found == getStudentByUUID(db.students, c.to)
       IN  IF c.bal < c.amount
           THEN /\ Return(p, "declined")
                /\ UNCHANGED exited
           ELSE IF found = Fatal
           THEN /\ exited' = TRUE
                /\ last' = ExitResult("DUPLICATE")
                /\ UNCHANGED calls
           ELSE /\ calls' = [calls EXCEPT ![p].pc = "push", ![p].student = found]
                /\ last' = NoLast
                /\ UNCHANGED exited
    /\ UNCHANGED << db, writeP, cycles, disk, started, nextUuid >>

\* The pc after the push, and after each getStudentBalance of Promise.all
\* has resumed: getStudentBalance(0, true) returns at once and never suspends.
AfterPush(c) ==
    IF c.from # Reservoir THEN "recalcFrom"
    ELSE IF c.to # Reservoir THEN "recalcTo" ELSE "finish"

AfterRecalcFrom(c) == IF c.to # Reservoir THEN "recalcTo" ELSE "finish"

\* createTransaction resumes with the student of `to` (lines 150-152): null
\* throws, otherwise the transaction is pushed and both getStudentBalance
\* calls of Promise.all run up to their lookups.
TxPush(p) ==
    /\ ~exited
    /\ p \in DOMAIN calls
    /\ calls[p].pc = "push"
    /\ LET c == calls[p]
           d == pushTransaction(db, c.from, c.to, c.amount)
           foundFrom == getStudentByUUID(d.students, c.from)
           foundTo == getStudentByUUID(d.students, c.to)
       IN  IF c.student = NoStudent
           THEN /\ Return(p, "notfound")
                /\ UNCHANGED << db, exited >>
           ELSE IF (c.from # Reservoir /\ foundFrom = Fatal)
                   \/ (c.to # Reservoir /\ foundTo = Fatal)
           THEN /\ db' = d
                /\ exited' = TRUE
                /\ last' = ExitResult("DUPLICATE")
                /\ UNCHANGED calls
           ELSE /\ db' = d
                /\ calls' = [calls EXCEPT
                       ![p].pc = AfterPush(c),
                       ![p].student = foundFrom,
                       ![p].studentTo = foundTo,
                       ![p].ret = << IF c.from = Reservoir THEN ReservoirBalance ELSE 0,
                                     IF c.to = Reservoir THEN ReservoirBalance ELSE 0 >>]
                /\ last' = NoLast
                /\ UNCHANGED exited
    /\ UNCHANGED << writeP, cycles, disk, started, nextUuid >>

\* getStudentBalance(from, true) of Promise.all resumes (lines 130-137).
TxRecalcFrom(p) ==
    /\ ~exited
    /\ p \in DOMAIN calls
    /\ calls[p].pc = "recalcFrom"
    /\ LET c == calls[p]
       IN  IF c.student = NoStudent
           THEN /\ Return(p, "notfound")
                /\ UNCHANGED << db, writeP, cycles >>
           ELSE /\ db' = recalc(db, c.student, c.from)
                /\ Sched(db')
                /\ calls' = [calls EXCEPT
                       ![p].pc = AfterRecalcFrom(c),
                       ![p].ret[1] = db'.students[c.student].balance]
                /\ last' = NoLast
    /\ UNCHANGED << disk, started, nextUuid, exited >>

\* getStudentBalance(to, true) of Promise.all resumes (lines 130-137).
TxRecalcTo(p) ==
    /\ ~exited
    /\ p \in DOMAIN calls
    /\ calls[p].pc = "recalcTo"
    /\ LET c == calls[p]
       IN  IF c.studentTo = NoStudent
           THEN /\ Return(p, "notfound")
                /\ UNCHANGED << db, writeP, cycles >>
           ELSE /\ db' = recalc(db, c.studentTo, c.to)
                /\ Sched(db')
                /\ calls' = [calls EXCEPT
                       ![p].pc = "finish",
                       ![p].ret[2] = db'.students[c.studentTo].balance]
                /\ last' = NoLast
    /\ UNCHANGED << disk, started, nextUuid, exited >>

\* createTransaction resumes with the balances (lines 153-154).
TxFinish(p) ==
    /\ ~exited
    /\ p \in DOMAIN calls
    /\ calls[p].pc = "finish"
    /\ Sched(db)
    /\ Return(p, "ok")
    /\ UNCHANGED << db, disk, started, nextUuid, exited >>

\* ------------------------------------------- scheduleWrite, past the wait
\* The timer of line 170 fires: the database is serialized and handed to
\* fs.writeFile (line 173).
TimerFire(c) ==
    /\ ~exited
    /\ c \in DOMAIN cycles
    /\ cycles[c].st = "wait"
    /\ NoMicrotask
    /\ cycles' = [i \in DOMAIN cycles |->
                     IF i = c
                     THEN [cycles[i] EXCEPT !.st = "write", !.writes = @ + 1,
                                            !.snap = FlushSnapshot(cycles[c], db)]
                     ELSE [cycles[i] EXCEPT !.writes = @ + 1]]
    /\ last' = NoLast
    /\ UNCHANGED << db, writeP, disk, calls, started, nextUuid, exited >>

\* fs.writeFile succeeded (lines 175-177): this.writeP is cleared, finish()
\* resolves the promise of the cycle, and the call returns that promise.
WriteDone(c) ==
    /\ ~exited
    /\ c \in DOMAIN cycles
    /\ cycles[c].st = "write"
    /\ NoMicrotask
    /\ disk' = cycles[c].snap
    /\ writeP' = NoWrite
    /\ cycles' = [i \in DOMAIN cycles \ { c } |-> cycles[i]]
    /\ last' = NoLast
    /\ UNCHANGED << db, calls, started, nextUuid, exited >>

\* fs.writeFile failed: the await of line 173 throws, so the async function
\* rejects the promise of the starting call and lines 175-176 never run.
WriteFail(c) ==
    /\ ~exited
    /\ c \in DOMAIN cycles
    /\ cycles[c].st = "write"
    /\ NoMicrotask
    /\ cycles' = [cycles EXCEPT ![c].st = "failed", ![c].callP = "rejected"]
    /\ last' = NoLast
    /\ UNCHANGED << db, writeP, disk, calls, started, nextUuid, exited >>

\* ---------------------------------------------------------- specification
Next ==
    \/ \E name \in NameInputs, password \in PasswordInputs :
           StartCreateStudent(name, password)
    \/ \E p \in DOMAIN calls : HashDone(p)
    \/ \E from \in UuidInputs, to \in UuidInputs, amount \in AmountInputs :
           StartCreateTransaction(from, to, amount)
    \/ \E p \in DOMAIN calls : TxBalance(p)
    \/ \E p \in DOMAIN calls : TxCheck(p)
    \/ \E p \in DOMAIN calls : TxPush(p)
    \/ \E p \in DOMAIN calls : TxRecalcFrom(p)
    \/ \E p \in DOMAIN calls : TxRecalcTo(p)
    \/ \E p \in DOMAIN calls : TxFinish(p)
    \/ \E c \in DOMAIN cycles : TimerFire(c)
    \/ \E c \in DOMAIN cycles : WriteDone(c)
    \/ \E c \in DOMAIN cycles : WriteFail(c)

Spec == Init /\ [][Next]_vars

\* ---------------------------------------------------- getStudentBalance
\* What last holds once a getStudentBalance call made by a caller has
\* returned or thrown: ret is the balance returned, was the cached balance
\* the student held when the call resumed.
BalanceResult(uuid, again, outcome, ret, was, pre, alone) ==
    [op |-> "getStudentBalance", uuid |-> uuid, recalc |-> again,
     outcome |-> outcome, ret |-> ret, was |-> was, pre |-> pre, alone |-> alone]

\* getStudentBalance(uuid, recalc) called by a caller, up to its await
\* (lines 127-129): 10000 at once for the reservoir, otherwise the lookup.
StartGetStudentBalance(uuid, again) ==
    /\ CanStart
    /\ LET alone == DOMAIN calls = { }
           found == getStudentByUUID(db.students, uuid)
       IN  IF uuid = Reservoir
           THEN /\ last' = BalanceResult(uuid, again, "ok", ReservoirBalance,
                                         ReservoirBalance, PreDb(alone), alone)
                /\ calls' = WithThrown
                /\ started' = started + 1
                /\ UNCHANGED exited
           ELSE IF found = Fatal
           THEN /\ exited' = TRUE
                /\ last' = ExitResult("DUPLICATE")
                /\ UNCHANGED << calls, started >>
           ELSE /\ calls' = WithNew([op |-> "getStudentBalance", pc |-> "gsb",
                                     uuid |-> uuid, recalc |-> again,
                                     student |-> found,
                                     pre |-> PreDb(alone), alone |-> alone])
                /\ started' = started + 1
                /\ last' = NoLast
                /\ UNCHANGED exited
    /\ UNCHANGED << db, writeP, cycles, disk, nextUuid >>

\* The call resumes after its lookup (lines 130-137): a missing student
\* throws; with recalc the balance is recomputed into the student and the
\* write scheduled; the student's balance is returned.
GetStudentBalanceResume(p) ==
    /\ ~exited
    /\ p \in DOMAIN calls
    /\ calls[p].pc = "gsb"
    /\ LET c == calls[p]
       IN  IF c.student = NoStudent
           THEN /\ last' = BalanceResult(c.uuid, c.recalc, "notfound", 0, 0, c.pre, c.alone)
                /\ UNCHANGED << db, writeP, cycles >>
           ELSE IF c.recalc
           THEN /\ db' = recalc(db, c.student, c.uuid)
                /\ Sched(db')
                /\ last' = BalanceResult(c.uuid, c.recalc, "ok",
                                         db'.students[c.student].balance,
                                         db.students[c.student].balance, c.pre, c.alone)
           ELSE /\ last' = BalanceResult(c.uuid, c.recalc, "ok",
                                         db.students[c.student].balance,
                                         db.students[c.student].balance, c.pre, c.alone)
                /\ UNCHANGED << db, writeP, cycles >>
    /\ calls' = Without(p)
    /\ UNCHANGED << disk, started, nextUuid, exited >>

\* The store with getStudentBalance among the calls a caller makes.
NextBalance ==
    \/ Next
    \/ \E uuid \in UuidInputs, again \in BOOLEAN : StartGetStudentBalance(uuid, again)
    \/ \E p \in DOMAIN calls : GetStudentBalanceResume(p)

SpecBalance == Init /\ [][NextBalance]_vars

\* -------------------------------------------------------- verifyStudent
\* bcrypt.compare(password, pash)
Compare(password, pash) == pash = Hash(password)

\* The value of a call that ends without a return statement.
Undefined == [undefined |-> TRUE]

\* The ret object of verifyStudent: student is false or the live student.
VerifyRet(student, err) == [student |-> student, err |-> err]

\* The passwords verifyStudent is called with.
VerifyPasswordInputs == PasswordInputs \cup { "" }

\* What last holds once a verifyStudent call has returned: ret is the value
\* the caller receives.
VerifyResult(name, password, ret, pre, alone) ==
    [op |-> "verifyStudent", name |-> name, password |-> password,
     ret |-> ret, pre |-> pre, alone |-> alone]

\* verifyStudent up to the await of bcrypt.compare (lines 74-87): the blank
\* checks and a missing name return ret with the failures, more than one
\* match exits, one match suspends on the comparison with its digest.
StartVerifyStudent(name, password) ==
    /\ CanStart
    /\ LET alone == DOMAIN calls = { }
           blank == (IF Len(name) = 0 THEN << "Name must not be blank" >> ELSE << >>)
                    \o (IF Len(password) = 0 THEN << "Password must not be blank" >> ELSE << >>)
           students == MatchName(db.students, name)
           returned(err) ==
               /\ last' = VerifyResult(name, password, VerifyRet(FALSE, err),
                                       PreDb(alone), alone)
               /\ calls' = WithThrown
               /\ started' = started + 1
               /\ UNCHANGED exited
       IN  IF blank # << >> THEN returned(blank)
           ELSE IF Cardinality(students) > 1
           THEN /\ exited' = TRUE
                /\ last' = ExitResult("DUPLICATE")
                /\ UNCHANGED << calls, started >>
           ELSE IF students = { } THEN returned(<< "does not exist" >>)
           ELSE LET i == CHOOSE j \in students : TRUE
                IN  /\ calls' = WithNew([op |-> "verifyStudent", pc |-> "compare",
                                         name |-> name, password |-> password,
                                         student |-> i, pash |-> db.students[i].pash,
                                         pre |-> PreDb(alone), alone |-> alone])
                    /\ started' = started + 1
                    /\ last' = NoLast
                    /\ UNCHANGED exited
    /\ UNCHANGED << db, writeP, cycles, disk, nextUuid >>

\* bcrypt.compare has resolved (lines 87-93): a mismatch returns ret with
\* "Wrong password"; on a match ret.student is assigned and the function
\* ends without returning ret.
CompareDone(p) ==
    /\ ~exited
    /\ p \in DOMAIN calls
    /\ calls[p].pc = "compare"
    /\ NoMicrotask
    /\ LET c == calls[p]
       IN  last' = VerifyResult(c.name, c.password,
                                IF ~Compare(c.password, c.pash)
                                THEN VerifyRet(FALSE, << "Wrong password" >>)
                                ELSE Undefined,
                                c.pre, c.alone)
    /\ calls' = Without(p)
    /\ UNCHANGED << db, writeP, cycles, disk, started, nextUuid, exited >>

\* The store with verifyStudent among the calls a caller makes.
NextVerify ==
    \/ Next
    \/ \E name \in NameInputs, password \in VerifyPasswordInputs :
          StartVerifyStudent(name, password)
    \/ \E p \in DOMAIN calls : CompareDone(p)

SpecVerify == Init /\ [][NextVerify]_vars

\* ------------------------------------------------------------- getters
\* An object handed to a caller: value is what it holds, alias the index of
\* the student of this.db it is the same object as, NoStudent for an object
\* of its own.
\* breakRefs(obj) = JSON.parse(JSON.stringify(obj)): a student holds two
\* strings and two integers, which the round trip keeps, in a new object.
breakRefs(obj) == [alias |-> NoStudent, value |-> obj]

\* students[0] itself, where students was filtered out of d.students.
LiveStudent(d, i) == [alias |-> i, value |-> d.students[i]]

\* getStudentCheck(students, identifier, _ref) as the getters return it: the
\* objects handed to the caller, none for null (and none where the code
\* calls process.exit).
getStudentCheckRef(d, matches, _ref) ==
    LET found == getStudentCheck(matches)
    IN  IF found \in { Fatal, NoStudent } THEN << >>
        ELSE IF _ref THEN << LiveStudent(d, found) >>
        ELSE << breakRefs(d.students[found]) >>

\* getAllStudents(): breakRefs(this.db.students)
getAllStudents(d) == [i \in DOMAIN d.students |-> breakRefs(d.students[i])]

\* What last holds once a getter has returned objs to its caller.
GetterResult(op, objs) == [op |-> op, objs |-> objs]

\* A getter runs to its return without suspending (lines 95-125); fatal
\* says that its getStudentCheck called process.exit.
Getter(op, fatal, objs) ==
    /\ CanStart
    /\ IF fatal
       THEN /\ exited' = TRUE
            /\ last' = ExitResult("DUPLICATE")
            /\ UNCHANGED << calls, started >>
       ELSE /\ last' = GetterResult(op, objs)
            /\ calls' = WithThrown
            /\ started' = started + 1
            /\ UNCHANGED exited
    /\ UNCHANGED << db, writeP, cycles, disk, nextUuid >>

CallGetStudentByUUID(uuid, _ref) ==
    LET students == MatchUuid(db.students, uuid)
    IN  Getter("getStudentByUUID", getStudentCheck(students) = Fatal,
               getStudentCheckRef(db, students, _ref))

CallGetStudentByName(name, _ref) ==
    LET students == MatchName(db.students, name)
    IN  Getter("getStudentByName", getStudentCheck(students) = Fatal,
               getStudentCheckRef(db, students, _ref))

CallGetAllStudents == Getter("getAllStudents", FALSE, getAllStudents(db))

\* The fields of a student and a value a caller may assign to each.
CallerValue ==
    [name |-> << "Z" >>, pash |-> Hash("short"), balance |-> ReservoirBalance]

\* The caller of a getter assigns to a field of the k-th object it was
\* handed: an object that is a student of this.db changes this.db.
CallerAssign(k, field) ==
    /\ ~exited
    /\ last.op \in { "getStudentByUUID", "getStudentByName", "getAllStudents" }
    /\ k \in DOMAIN last.objs
    /\ LET obj == last.objs[k]
       IN  /\ db' = IF obj.alias = NoStudent THEN db
                    ELSE [db EXCEPT !.students[obj.alias][field] = CallerValue[field]]
           /\ last' = [op |-> "assign", getter |-> last.op, field |-> field,
                       to |-> obj.value.uuid]
    /\ UNCHANGED << writeP, cycles, disk, calls, started, nextUuid, exited >>

\* The store with the getters among the calls a caller makes, and the
\* caller's assignments to what they return.
NextPublic ==
    \/ Next
    \/ \E uuid \in UuidInputs, _ref \in BOOLEAN : CallGetStudentByUUID(uuid, _ref)
    \/ \E name \in NameInputs, _ref \in BOOLEAN : CallGetStudentByName(name, _ref)
    \/ CallGetAllStudents
    \/ \E k \in 1 .. MaxCalls + 2, field \in DOMAIN CallerValue : CallerAssign(k, field)

SpecPublic == Init /\ [][NextPublic]_vars

\* --------------------------------------------------------- constructor
\* The text of bank.json as a sequence of tokens: none for an empty file,
\* "{" followed by the object for the JSON text of an object.
\* JSON.stringify(obj)
JSONStringify(obj) == << "{", obj >>

\* JSON.parse(text): the object of a well-formed text; ok is FALSE where
\* JSON.parse throws.
JSONParse(text) ==
    IF Len(text) = 2 /\ text[1] = "{"
    THEN [ok |-> TRUE, value |-> text[2]]
    ELSE [ok |-> FALSE, value |-> << >>]

\* A snapshot with two students of one uuid, and one with two of one name.
DuplicateUuidDb ==
    Db(<< Student(1, NameA, Hash("GuiltySpark343"), 0),
          Student(1, NameB, Hash("GetsugaTensho"), 0) >>, << >>)

DuplicateNameDb ==
    Db(<< Student(1, NameA, Hash("GuiltySpark343"), 0),
          Student(2, NameA, Hash("GetsugaTensho"), 0) >>, << >>)

\* bank.json as the constructor may find it.
File(exists, readable, text) == [exists |-> exists, readable |-> readable, text |-> text]

Files ==
    { File(FALSE, FALSE, << >>),
      File(TRUE, FALSE, << >>),
      File(TRUE, TRUE, << >>),
      File(TRUE, TRUE, << "[" >>),
      File(TRUE, TRUE, << "{" >>),
      File(TRUE, TRUE, JSONStringify([transactions |-> << >>])) }
    \cup { File(TRUE, TRUE, JSONStringify(d)) :
             d \in { EmptyDb, SeededDb, DuplicateUuidDb, DuplicateNameDb } }

\* The constructor run on file (lines 12-41): cause is the entry of ERRORS
\* it exits with, "none" when it returns with this.db set to db.
constructor(file) ==
    LET exit(cause) == [cause |-> cause, db |-> EmptyDb]
        defaults(obj) ==
            [cause |-> "none",
             db |-> Db(IF "students" \in DOMAIN obj THEN obj.students ELSE << >>,
                       IF "transactions" \in DOMAIN obj THEN obj.transactions ELSE << >>)]
    IN  IF file.exists /\ ~file.readable THEN exit("READ")
        ELSE LET bankStr == IF file.exists THEN file.text ELSE << >>
             IN  IF Len(bankStr) > 0 /\ bankStr[1] = "{"
                 THEN IF JSONParse(bankStr).ok
                      THEN defaults(JSONParse(bankStr).value)
                      ELSE exit("PARSE")
                 ELSE IF Len(bankStr) > 0 THEN exit("PARSE")
                 ELSE defaults(<< >>)

\* The state the constructor leaves, for every file it may find.
InitLoad ==
    \E file \in Files :
        LET made == constructor(file)
        IN  /\ db = made.db
            /\ disk = db
            /\ writeP = NoWrite
            /\ cycles = << >>
            /\ calls = << >>
            /\ started = 0
            /\ nextUuid = Len(db.students) + 1
            /\ exited = (made.cause # "none")
            /\ last = IF made.cause # "none" THEN ExitResult(made.cause) ELSE NoLast

\* The store from its construction on any file.
SpecLoad == InitLoad /\ [][NextVerify]_vars

\* ================================================================ claims
\* The balance of uuid replayed from the whole transaction log.
Replayed(uuid) == ReduceBalance(db.transactions, uuid, Len(db.transactions))

\* No call is in flight and no write cycle is outstanding or has failed.
Quiescent == DOMAIN calls = { } /\ DOMAIN cycles = { }

\* C1: in every reachable state, each account's balance replayed from the
\* transaction log is >= 0 (two transfers from one account never both pass
\* the balance check before either appends).
C1_NoOverdraft ==
    \A i \in DOMAIN db.students : Replayed(db.students[i].uuid) >= 0

\* C2: in every reachable state no two accounts have the same name.
C2_UniqueNames ==
    \A i, j \in DOMAIN db.students :
        i # j => db.students[i].name # db.students[j].name

\* C3: provided writes succeed, every committed mutation ends up in a written
\* snapshot: once no call and no write cycle is left to run, bank.json holds
\* the database.
C3_EverythingWritten == Quiescent => disk = db

\* C4: when the file write of a cycle fails, the completion handle that the
\* callers which joined the cycle were given is settled with the failure:
\* it is no longer pending once every call and every cycle has run to its end.
C4_FailureSignalled ==
    \A c \in DOMAIN cycles :
        ( /\ cycles[c].st = "failed"
          /\ cycles[c].joins >= 2
          /\ DOMAIN calls = { }
          /\ InFlight(cycles) = { } )
        => cycles[c].handle = "rejected"

\* C5: after a cycle has failed the pending-write slot is cleared.
C5_SlotClearedAfterFailure ==
    \A c \in DOMAIN cycles : cycles[c].st = "failed" => writeP # c

\* C6: the scheduleWrite calls made within one debounce window cause exactly
\* one file write: none is made while the window is open, one has been made
\* once its flush began, and the snapshot handed to it is the database as the
\* last call of the window left it.
C6_OneWritePerWindow ==
    \A c \in DOMAIN cycles :
        /\ cycles[c].st = "wait" => cycles[c].writes = 0
        /\ cycles[c].st = "write" =>
               /\ cycles[c].writes = 1
               /\ cycles[c].snap = cycles[c].seen

\* A flush has begun for a window that several scheduleWrite calls joined and
\* during which the database changed.
C6_Witness ==
    \E c \in DOMAIN cycles :
        /\ cycles[c].st = "write"
        /\ cycles[c].joins >= 2
        /\ cycles[c].seen # cycles[c].first

\* C7: at most one write cycle (debounce wait or file write) is in flight.
C7_OneCycleInFlight == Cardinality(InFlight(cycles)) <= 1

\* Two calls are in flight and both have called scheduleWrite during the one
\* cycle that is waiting.
C7_Witness ==
    /\ Cardinality({ p \in DOMAIN calls : calls[p].pc \in { "check", "finish" } }) >= 2
    /\ \E c \in DOMAIN cycles : cycles[c].st = "wait" /\ cycles[c].joins >= 2

\* The cached balance of uuid in the students list, 0 when there is none.
CachedIn(students, uuid) ==
    LET m == MatchUuid(students, uuid)
    IN  IF m = { } THEN 0 ELSE students[CHOOSE i \in m : TRUE].balance

\* The latest step completed a createTransaction call that passed the
\* validations and that no other call overlapped.
TxAlone ==
    /\ last.op = "createTransaction"
    /\ last.outcome # "validation"
    /\ last.alone

\* C8: a transfer to the reservoir (to = 0) from an existing account whose
\* balance covers the amount is appended to the log and returns the pair
\* (sender's new balance, ReservoirBalance).
C8_WithdrawalAccepted ==
    ( /\ TxAlone
      /\ last.to = Reservoir
      /\ MatchUuid(last.pre.students, last.from) # { }
      /\ ReduceBalance(last.pre.transactions, last.from,
                       Len(last.pre.transactions)) >= last.amount )
    => /\ last.outcome = "ok"
       /\ db.transactions =
              Append(last.pre.transactions, Transaction(last.from, Reservoir, last.amount))
       /\ last.ret = << CachedIn(last.pre.students, last.from) - last.amount,
                        ReservoirBalance >>

\* C9: a successful createTransaction that ran on its own appended exactly
\* one transfer; the balances it returned, and cached, are the sender's
\* former balance less the amount and the receiver's plus the amount, with
\* ReservoirBalance for the reservoir; every other account is unchanged.
C9_TransferMovesAmount ==
    (TxAlone /\ last.outcome = "ok") =>
        /\ db.transactions =
               Append(last.pre.transactions, Transaction(last.from, last.to, last.amount))
        /\ last.ret[1] = IF last.from = Reservoir THEN ReservoirBalance
                         ELSE CachedIn(last.pre.students, last.from) - last.amount
        /\ last.ret[2] = IF last.to = Reservoir THEN ReservoirBalance
                         ELSE CachedIn(last.pre.students, last.to) + last.amount
        /\ last.from # Reservoir => CachedIn(db.students, last.from) = last.ret[1]
        /\ last.to # Reservoir => CachedIn(db.students, last.to) = last.ret[2]
        /\ DOMAIN db.students = DOMAIN last.pre.students
        /\ \A i \in DOMAIN db.students :
               IF db.students[i].uuid \in { last.from, last.to }
               THEN [db.students[i] EXCEPT !.balance = 0]
                        = [last.pre.students[i] EXCEPT !.balance = 0]
               ELSE db.students[i] = last.pre.students[i]

\* A transfer between two accounts has just returned its balances.
C9_Witness ==
    /\ TxAlone
    /\ last.outcome = "ok"
    /\ last.from # Reservoir
    /\ last.to # Reservoir

\* Call p takes the step in which getStudentBalance(from, true) recomputes
\* the sender's balance, and the balance is too small for the amount.
DeclinedRecalcStep(p) ==
    /\ calls[p].op = "createTransaction"
    /\ calls[p].pc = "balance"
    /\ p \in DOMAIN calls'
    /\ calls'[p].pc = "check"
    /\ calls'[p].bal < calls'[p].amount

\* Call p takes the step in which createTransaction returns null.
DeclinedReturnStep(p) ==
    /\ calls[p].op = "createTransaction"
    /\ calls[p].pc = "check"
    /\ p \notin DOMAIN calls'
    /\ last'.op = "createTransaction"
    /\ last'.outcome = "declined"

TxCompleted(l) == l.op = "createTransaction"

\* The amount a caller passed is a positive integer.
PositiveInteger(a) == a.n % a.d = 0 /\ a.n > 0

\* C11: a createTransaction call with from = to, or with an amount that is
\* zero, negative or not an integer, ends with the validation error, in the
\* step that starts it, and that step leaves the database unchanged.
C11_InvalidTransferRejected ==
    [][(TxCompleted(last') /\ (last'.from = last'.to \/ ~PositiveInteger(last'.given)))
          => /\ last'.outcome = "validation"
             /\ started' = started + 1
             /\ db' = db]_vars

\* A createTransaction call with a non-integer amount has been rejected.
C11_Witness ==
    /\ TxCompleted(last)
    /\ last.outcome = "validation"
    /\ last.from # last.to
    /\ last.given.n % last.given.d # 0

\* Some student of the list has the uuid.
HasUuid(students, uuid) == \E i \in DOMAIN students : students[i].uuid = uuid

\* The latest step completed a createTransaction call that no other call
\* overlapped, with a destination that is neither the reservoir nor, when the
\* call started, the uuid of a student, and with a sender that is the
\* reservoir or a student whose balance covers the amount.
TxToMissing ==
    /\ TxAlone
    /\ last.to # Reservoir
    /\ ~HasUuid(last.pre.students, last.to)
    /\ \/ last.from = Reservoir
       \/ /\ HasUuid(last.pre.students, last.from)
          /\ ReduceBalance(last.pre.transactions, last.from,
                           Len(last.pre.transactions)) >= last.amount

\* C12: a createTransaction call whose destination is a non-sentinel id that
\* matches no account ends with the not-found error and leaves the
\* transaction log unchanged, whether the sender is the reservoir or an
\* account with sufficient funds.
C12_MissingDestinationRejected ==
    TxToMissing =>
        /\ last.outcome = "notfound"
        /\ db.transactions = last.pre.transactions

\* A transfer from a funded account to a uuid of no student has been rejected.
C12_Witness ==
    /\ TxToMissing
    /\ last.from # Reservoir
    /\ last.outcome = "notfound"

\* The latest step completed a createStudent call that passed the three
\* validations and that no other call overlapped.
StudentAlone ==
    /\ last.op = "createStudent"
    /\ last.outcome # "validation"
    /\ last.alone

\* Some student of the list has exactly this name.
HasName(students, name) == \E i \in DOMAIN students : students[i].name = name

\* Some student of the list has a name that differs from this one, and only
\* in the case of its letters.
HasCaseVariant(students, name) ==
    \E i \in DOMAIN students :
        /\ students[i].name # name
        /\ LowerCase(students[i].name) = LowerCase(name)

\* C14: createStudent with a name that exactly equals the name of an account
\* in the store ends with the conflict error and leaves the account list
\* unchanged; with any other name, one that differs from an existing name
\* only in letter case included, it appends a new account with balance 0.
C14_ExactNameConflict ==
    StudentAlone =>
        IF HasName(last.pre.students, last.name)
        THEN /\ last.outcome = "conflict"
             /\ db.students = last.pre.students
        ELSE /\ last.outcome = "ok"
             /\ db.students =
                    Append(last.pre.students,
                           Student(last.ret, last.name, Hash(last.password), 0))

\* A student has been created whose name differs only in case from the name
\* of a student that was there.
C14_Witness ==
    /\ StudentAlone
    /\ last.outcome = "ok"
    /\ HasCaseVariant(last.pre.students, last.name)

\* Every entry of the log of d has from # to, a positive integer amount, and
\* a `to` that is the reservoir or the uuid of a student of d.
LogWellFormed(d) ==
    \A k \in DOMAIN d.transactions :
        LET tx == d.transactions[k]
        IN  /\ tx.from # tx.to
            /\ tx.amount \in Nat \ { 0 }
            /\ tx.to = Reservoir \/ HasUuid(d.students, tx.to)

\* The log t is the log s with entries appended.
Extends(s, t) == Len(s) <= Len(t) /\ SubSeq(t, 1, Len(s)) = s

\* C19: in every reachable state every entry of the transaction log has from
\* different from to, a positive integer amount and a `to` that is the
\* sentinel or the uuid of an existing account; no step changes or removes an
\* entry that is in the log.
C19_LogWellFormedAppendOnly ==
    /\ []LogWellFormed(db)
    /\ [][Extends(db.transactions, db'.transactions)]_vars

\* A store that started empty holds a student and a transfer to it.
C19_Witness ==
    /\ Len(db.transactions) = 1
    /\ HasUuid(db.students, db.transactions[1].to)

\* The sum of the amounts of the first n entries of the log whose receiver
\* (side "to") or sender (side "from") is uuid.
RECURSIVE AmountsOf(_, _, _, _)
AmountsOf(transactions, side, uuid, n) ==
    IF n = 0 THEN 0
    ELSE AmountsOf(transactions, side, uuid, n - 1)
         + (IF side = "to" /\ transactions[n].to = uuid THEN transactions[n].amount ELSE 0)
         + (IF side = "from" /\ transactions[n].from = uuid THEN transactions[n].amount ELSE 0)

\* The step that completes a getStudentBalance(uuid, true) call of an
\* existing student.
RecalculatedStep ==
    /\ last'.op = "getStudentBalance"
    /\ last'.recalc
    /\ last'.outcome = "ok"
    /\ last'.uuid # Reservoir

\* C13: getStudentBalance(id, recalculate = true) on an existing account
\* returns the sum of the amounts received minus the sum of the amounts sent
\* over the log, whatever the cached balance was (so two calls on the same
\* log return the same number), and changes nothing in the store but that
\* account's cached balance, which becomes the returned number.
C13_RecalculateFromLog ==
    [][RecalculatedStep =>
          /\ last'.ret = AmountsOf(db.transactions, "to", last'.uuid, Len(db.transactions))
                          - AmountsOf(db.transactions, "from", last'.uuid, Len(db.transactions))
          /\ db'.transactions = db.transactions
          /\ \E i \in DOMAIN db.students :
                /\ db.students[i].uuid = last'.uuid
                /\ db'.students = [db.students EXCEPT ![i].balance = last'.ret]]_vars

\* A recalculation that found a stale cached balance and replaced it.
C13_Witness ==
    /\ last.op = "getStudentBalance"
    /\ last.recalc
    /\ last.outcome = "ok"
    /\ last.uuid # Reservoir
    /\ last.was # last.ret
    /\ last.ret > 0

\* No createTransaction or getStudentBalance call is in flight.
NoBalanceCallInFlight ==
    \A p \in DOMAIN calls : calls[p].op \notin { "createTransaction", "getStudentBalance" }

\* C20: whenever no createTransaction or getStudentBalance call is in
\* flight, every account's cached balance equals the replay of the log.
C20_CacheMatchesReplay ==
    NoBalanceCallInFlight =>
        \A i \in DOMAIN db.students :
            db.students[i].balance = Replayed(db.students[i].uuid)

\* The last of two overlapping calls has just returned, one of them a
\* transfer that went through, and none is in flight.
C20_Witness ==
    /\ NoBalanceCallInFlight
    /\ last.op \in { "createTransaction", "getStudentBalance" }
    /\ last.outcome = "ok"
    /\ ~last.alone
    /\ \E i \in DOMAIN db.students : db.students[i].balance > 0
    /\ Len(db.transactions) > 2


\* A verifyStudent call that no other call overlapped has returned, its name
\* and password were not blank, exactly one account had the name and the
\* hashing service accepts the password for that account's digest.
VerifiedAlone ==
    /\ last.op = "verifyStudent"
    /\ last.alone
    /\ Len(last.name) > 0
    /\ Len(last.password) > 0
    /\ \E i \in DOMAIN last.pre.students :
          /\ last.pre.students[i].name = last.name
          /\ last.pre.students[i].pash = Hash(last.password)
          /\ \A j \in DOMAIN last.pre.students :
                last.pre.students[j].name = last.name => j = i

\* C15: verifyStudent with a non-blank name that matches exactly one account
\* and a password the hashing service accepts returns that account.
C15_VerifyReturnsAccount ==
    VerifiedAlone =>
        \E i \in DOMAIN last.pre.students :
            /\ last.pre.students[i].name = last.name
            /\ last.ret = VerifyRet(last.pre.students[i], << >>)

\* C16: the objects getStudentByUUID, getStudentByName and getAllStudents
\* return are independent copies: an assignment a caller makes to a returned
\* object leaves the store's accounts unchanged, whatever arguments the
\* caller passed to the getter.
C16_ReturnedObjectsAreCopies ==
    [][last'.op = "assign" => db'.students = db.students]_vars

\* No two students share a uuid or a name.
NoDuplicateAccounts(students) ==
    \A i, j \in DOMAIN students :
        (students[i].uuid = students[j].uuid \/ students[i].name = students[j].name)
            => i = j

\* C17: the store is never running, constructed and with no call made yet,
\* with two accounts of one identifier or one name loaded.
C17_DuplicateSnapshotIsFatal ==
    (started = 0 /\ ~exited) => NoDuplicateAccounts(db.students)

\* C18: the status the process exits with is the status of no other cause:
\* the statuses of a read failure, a parse failure and a detected duplicate
\* are pairwise different.
C18_ExitStatusTellsCause ==
    (exited /\ last.op = "exit") =>
        \A cause \in DOMAIN ERRORS \ { last.cause } : ERRORS[cause] # last.status

====
